---- MODULE Spec2Model ----
(***************************************************************************)
(* ArcGIS cache tile server: the tile route handler, the conf.xml cache    *)
(* (getConfXml / mapInfoCache) and the two compact-cache bundle decoders   *)
(* (readTileV1, readTileV2, getBundleInfo) of src/src/index.ts.            *)
(*                                                                         *)
(* Every `await` of the source is one step boundary: an action performs    *)
(* the awaited I/O operation and runs the code that follows it up to the   *)
(* next `await`.                                                           *)
(***************************************************************************)
EXTENDS Integers, Sequences, FiniteSets, TLC

(***************************************************************************)
(* Bounds of the model.                                                    *)
(***************************************************************************)
\* number of tile requests that may be in flight together (Spec)
NumReqs == 2

Procs == 1..NumReqs

(***************************************************************************)
(* Program constants.                                                      *)
(***************************************************************************)
HEADER_SIZE == 64
RECORD_SIZE == 8
\* `packetSize = 128` default parameter of readTileV1, getBundleInfo, readTileV2
DEFAULT_PACKET_SIZE == 128
\* `length > 1_000_000` in readTileV1
V1_MAX_LENGTH == 1000000
\* the version a V2 bundle header must carry (`version !== 3`)
V2_VERSION == 3
\* byte offset of the first index record of a .bundlx file (`16 + 5 * index`)
BUNDLX_HEADER == 16
\* size of one .bundlx index record (`Buffer.alloc(5)`)
BUNDLX_RECORD == 5

(***************************************************************************)
(* JavaScript numbers.  A number is an integer or NaN; the infinities only *)
(* arise inside Math.floor(v / 0) * 0, which is NaN.                       *)
(***************************************************************************)
NaN == [nan |-> TRUE, v |-> 0]
Num(i) == [nan |-> FALSE, v |-> i]

\* `!n` is false exactly for the numbers that are neither 0 nor NaN
Truthy(n) == ~n.nan /\ n.v # 0

JsAdd(a, b) == IF a.nan \/ b.nan THEN NaN ELSE Num(a.v + b.v)
JsSub(a, b) == IF a.nan \/ b.nan THEN NaN ELSE Num(a.v - b.v)
JsMul(a, b) == IF a.nan \/ b.nan THEN NaN ELSE Num(a.v * b.v)

\* floor of the real quotient a / b, b # 0
FloorDiv(a, b) == IF b > 0 THEN a \div b ELSE (0 - a) \div (0 - b)

\* Math.floor(v / packetSize) * packetSize
FloorGroup(v, packetSize) ==
    IF v.nan \/ packetSize.nan \/ packetSize.v = 0
    THEN NaN
    ELSE Num(FloorDiv(v.v, packetSize.v) * packetSize.v)

Digit(d) ==
    CASE d = 0 -> "0" [] d = 1 -> "1" [] d = 2 -> "2" [] d = 3 -> "3"
      [] d = 4 -> "4" [] d = 5 -> "5" [] d = 6 -> "6" [] d = 7 -> "7"
      [] d = 8 -> "8" [] d = 9 -> "9" [] d = 10 -> "a" [] d = 11 -> "b"
      [] d = 12 -> "c" [] d = 13 -> "d" [] d = 14 -> "e" [] d = 15 -> "f"

RECURSIVE NatToString(_, _)
NatToString(n, radix) ==
    IF n < radix THEN Digit(n)
    ELSE NatToString(n \div radix, radix) \o Digit(n % radix)

\* Number.prototype.toString(radix)
NumToString(n, radix) ==
    IF n.nan THEN "NaN"
    ELSE IF n.v < 0 THEN "-" \o NatToString(0 - n.v, radix)
    ELSE NatToString(n.v, radix)

RECURSIVE PadStart(_, _, _)
\* String.prototype.padStart(targetLength, padString), one-character pad
PadStart(s, targetLength, pad) ==
    IF Len(s) >= targetLength THEN s ELSE PadStart(pad \o s, targetLength, pad)

(***************************************************************************)
(* parseInt(string) with no radix: a string is a sequence of characters.   *)
(***************************************************************************)
DigitValue(c) ==
    CASE c = "0" -> 0 [] c = "1" -> 1 [] c = "2" -> 2 [] c = "3" -> 3
      [] c = "4" -> 4 [] c = "5" -> 5 [] c = "6" -> 6 [] c = "7" -> 7
      [] c = "8" -> 8 [] c = "9" -> 9
      [] c \in {"a", "A"} -> 10 [] c \in {"b", "B"} -> 11
      [] c \in {"c", "C"} -> 12 [] c \in {"d", "D"} -> 13
      [] c \in {"e", "E"} -> 14 [] c \in {"f", "F"} -> 15
      [] OTHER -> 99

RECURSIVE ParseDigits(_, _, _, _, _)
\* the value of the longest prefix of radix digits of s from position i on
ParseDigits(s, i, radix, acc, seen) ==
    IF i > Len(s) \/ DigitValue(s[i]) >= radix
    THEN IF seen THEN Num(acc) ELSE NaN
    ELSE ParseDigits(s, i + 1, radix, acc * radix + DigitValue(s[i]), TRUE)

RECURSIVE SkipSpaces(_, _)
SkipSpaces(s, i) == IF i <= Len(s) /\ s[i] = " " THEN SkipSpaces(s, i + 1) ELSE i

\* parseInt(s): leading blanks, a sign, a 0x prefix, then the digits
ParseInt(s) ==
    LET i == SkipSpaces(s, 1)
        neg == i <= Len(s) /\ s[i] = "-"
        j == IF i <= Len(s) /\ s[i] \in {"-", "+"} THEN i + 1 ELSE i
        hex == j + 1 <= Len(s) /\ s[j] = "0" /\ s[j + 1] \in {"x", "X"}
        m == IF hex THEN ParseDigits(s, j + 2, 16, 0, FALSE)
                    ELSE ParseDigits(s, j, 10, 0, FALSE)
    IN IF m.nan THEN NaN ELSE IF neg THEN Num(0 - m.v) ELSE m

(***************************************************************************)
(* Files and Buffers.  Both are a size and the bytes that are not zero,    *)
(* keyed by offset; every other byte below size is zero.                   *)
(***************************************************************************)
NoBytes == [o \in {} |-> 0]
ByteAt(f, o) == IF o \in DOMAIN f.bytes THEN f.bytes[o] ELSE 0

\* Buffer.alloc(size): zero filled
BufferAlloc(size) == [size |-> size, bytes |-> NoBytes]

RECURSIVE ReadLE(_, _, _)
\* little-endian unsigned integer of n bytes at offset o
ReadLE(buf, o, n) ==
    IF n = 0 THEN 0 ELSE ByteAt(buf, o) + 256 * ReadLE(buf, o + 1, n - 1)

\* Buffer.readUIntLE(offset, byteLength)
readUIntLE(buf, o, n) == ReadLE(buf, o, n)
\* Buffer.readUInt32LE(offset)
readUInt32LE(buf, o) == ReadLE(buf, o, 4)
\* Buffer.readInt32LE(offset): two's complement
readInt32LE(buf, o) ==
    LET hi == ByteAt(buf, o + 3)
    IN ReadLE(buf, o, 3) + 16777216 * (IF hi >= 128 THEN hi - 256 ELSE hi)

(***************************************************************************)
(* The file system the server runs on.  It is read-only for the program.   *)
(* Bundle files are built per the on-disk layout the decoders consume.     *)
(***************************************************************************)
RECURSIVE ByteOf(_, _)
\* byte i of the two's complement little-endian encoding of v
ByteOf(v, i) == IF i = 0 THEN v % 256 ELSE ByteOf(v \div 256, i - 1)

\* the n bytes of v, little-endian, stored at offset o
PutLE(o, v, n) ==
    [x \in {o + i : i \in {k \in 0..(n - 1) : ByteOf(v, k) # 0}} |-> ByteOf(v, x - o)]

\* the bytes of sequence b stored at offset o
PutBytes(o, b) ==
    [x \in {o + i - 1 : i \in {k \in 1..Len(b) : b[k] # 0}} |-> b[x - o + 1]]

MkFile(size, bytes) == [size |-> size, bytes |-> bytes]

RASTER_TILE_ROOT_DIR == "image_tiles"

getAllLayersDir(mapName) == RASTER_TILE_ROOT_DIR \o "/" \o mapName \o "/_alllayers"

\* size of a complete .bundlx of a packet size
BundlxSize(packetSize) == BUNDLX_HEADER + BUNDLX_RECORD * packetSize * packetSize

\* map v1a: Compact, PacketSize 128.  Slot of (row, col) = 128 * col + row.
V1aFiles ==
    LET d == getAllLayersDir("v1a") IN
    (d \o "/L01/R0000C0000.bundlx" :>
        MkFile(BundlxSize(128),
               PutLE(16 + 5 * 257, 60, 5)      \* (row 1, col 2): a 3 byte tile
            @@ PutLE(16 + 5 * 131, 80, 5)      \* (row 3, col 1): length 1,000,001
            @@ PutLE(16 + 5 * 129, 90, 5)      \* (row 1, col 1): length -1
            @@ PutLE(16 + 5 * 130, 100, 5)))   \* (row 2, col 1): length 1,000,000
 @@ (d \o "/L01/R0000C0000.bundle" :>
        MkFile(1000104,
               PutLE(60, 3, 4) @@ PutBytes(64, <<137, 80, 78>>)
            @@ PutLE(80, 1000001, 4)
            @@ PutLE(90, -1, 4)
            @@ PutLE(100, 1000000, 4) @@ PutBytes(104, <<255, 216, 255>>)))
    \* level 2, group 0: the index names a tile but the .bundle is missing
 @@ (d \o "/L02/R0000C0000.bundlx" :>
        MkFile(BundlxSize(128), PutLE(16 + 5 * 129, 60, 5)))
    \* level 2, row group 128: an index truncated after its 16 byte preamble
 @@ (d \o "/L02/R0080C0000.bundlx" :> MkFile(16, NoBytes))
 @@ (d \o "/L02/R0080C0000.bundle" :> MkFile(0, NoBytes))

\* map v1b: Compact, PacketSize 2.  Slot of (row, col) = 2 * (col - cG) + (row - rG).
V1bFiles ==
    LET d == getAllLayersDir("v1b") IN
    (d \o "/L01/R0000C0000.bundlx" :>
        MkFile(BundlxSize(2), PutLE(16 + 5 * 3, 20, 5)))       \* (row 1, col 1)
 @@ (d \o "/L01/R0000C0000.bundle" :>
        MkFile(26, PutLE(20, 2, 4) @@ PutBytes(24, <<11, 12>>)))
 @@ (d \o "/L01/R0002C0000.bundlx" :>
        MkFile(BundlxSize(2), PutLE(16 + 5 * 3, 10, 5)))       \* (row 3, col 1)
 @@ (d \o "/L01/R0002C0000.bundle" :>
        MkFile(16, PutLE(10, 2, 4) @@ PutBytes(14, <<21, 22>>)))

\* map v2a: CompactV2, PacketSize 2.  Slot of (row, col) = 2 * (row - rG) + (col - cG).
V2aFiles ==
    LET d == getAllLayersDir("v2a") IN
    (d \o "/L01/R0002C0000.bundle" :>
        MkFile(1000201,
               PutLE(0, 3, 4)
            @@ PutLE(64 + 8 * 3, 100, 4)       \* (row 3, col 1): a 3 byte tile
            @@ PutLE(96, 3, 4) @@ PutBytes(100, <<31, 32, 33>>)
            @@ PutLE(64 + 8 * 2, 200, 4)       \* (row 3, col 0): length 1,000,001
            @@ PutLE(196, 1000001, 4) @@ PutBytes(200, <<41, 42>>)
            @@ PutLE(64 + 8 * 0, 120, 4)       \* (row 2, col 0): length -1
            @@ PutLE(116, -1, 4)))             \* (row 2, col 1): record 0
    \* header version 2
 @@ (d \o "/L01/R0000C0000.bundle" :>
        MkFile(103,
               PutLE(0, 2, 4)
            @@ PutLE(64 + 8 * 3, 100, 4)       \* (row 1, col 1)
            @@ PutLE(96, 3, 4) @@ PutBytes(100, <<51, 52, 53>>)))
    \* truncated after the 64 byte header
 @@ (d \o "/L02/R0000C0000.bundle" :> MkFile(64, PutLE(0, 3, 4)))
    \* tile data truncated: 5 bytes announced, 2 present
 @@ (d \o "/L02/R0002C0002.bundle" :>
        MkFile(102,
               PutLE(0, 3, 4)
            @@ PutLE(64 + 8 * 0, 100, 4)       \* (row 2, col 2)
            @@ PutLE(96, 5, 4) @@ PutBytes(100, <<61, 62>>)))
    \* a record whose data offset is below 4
 @@ (d \o "/L02/R0002C0000.bundle" :>
        MkFile(96, PutLE(0, 3, 4) @@ PutLE(64 + 8 * 1, 3, 4)))   \* (row 2, col 1)

\* path -> file, for every bundle and index file that exists
BundleFiles == V1aFiles @@ V1bFiles @@ V2aFiles

\* fs.open(path, 'r') succeeds exactly for the files that exist
FileExists(path) == path \in DOMAIN BundleFiles

(***************************************************************************)
(* filehandle.read(buffer, 0, length, position) on a fresh zero-filled     *)
(* buffer of `length` bytes.  The outcomes: the read fails (an I/O error   *)
(* rejects the promise), or it transfers the bytes the file holds from     *)
(* the position on, fewer than asked for when the file ends first.  A      *)
(* position of -1 reads at the handle's current position and advances it;  *)
(* any other negative or NaN position is rejected by some runtimes and     *)
(* treated as -1 by others.                                                *)
(***************************************************************************)
Min(a, b) == IF a <= b THEN a ELSE b
Max(a, b) == IF a >= b THEN a ELSE b

ReadAt(file, start, length) ==
    LET k == Max(0, Min(length, file.size - start))
        src == {y \in DOMAIN file.bytes : y >= start /\ y < start + k}
    IN [bytesRead |-> k,
        buf |-> [size |-> length,
                 bytes |-> [o \in {y - start : y \in src} |-> file.bytes[o + start]]]]

ReadOutcomes(file, filePos, position, length) ==
    LET fault == [threw |-> TRUE, bytesRead |-> 0,
                  buf |-> BufferAlloc(length), pos |-> filePos]
        positional == ~position.nan /\ position.v >= 0
        start == IF positional THEN position.v ELSE filePos
        got == ReadAt(file, start, length)
    IN {fault,
        [threw |-> FALSE, bytesRead |-> got.bytesRead, buf |-> got.buf,
         pos |-> IF positional THEN filePos ELSE filePos + got.bytesRead]}

(***************************************************************************)
(* getBundleInfo(col, row, level, packetSize = 128)                        *)
(***************************************************************************)
getBundleInfo(col, row, level, packetSize) ==
    LET rGroup == FloorGroup(row, packetSize)
        cGroup == FloorGroup(col, packetSize)
    IN [L |-> "L" \o PadStart(NumToString(level, 10), 2, "0"),
        R |-> "R" \o PadStart(NumToString(rGroup, 16), 4, "0"),
        C |-> "C" \o PadStart(NumToString(cGroup, 16), 4, "0"),
        rGroup |-> rGroup,
        cGroup |-> cGroup]

(***************************************************************************)
(* State.                                                                  *)
(*   req[p]        the tile route handler's activation for request p       *)
(*   dec[p]        the decoder activation (readTileV1 / readTileV2) of p:  *)
(*                 its arguments, locals, position, the file handles it    *)
(*                 opened and the reads it issued                          *)
(*   mapInfoCache  the Map mapName -> ConfXmlInfo                          *)
(*   loads         per map name, how often conf.xml was read and parsed    *)
(***************************************************************************)
VARIABLES req, dec, mapInfoCache, loads

vars == <<req, dec, mapInfoCache, loads>>

NoResult == [kind |-> "pending", buf |-> BufferAlloc(0)]
NullResult == [kind |-> "null", buf |-> BufferAlloc(0)]
ThrowResult == [kind |-> "throw", buf |-> BufferAlloc(0)]
BufferResult(b) == [kind |-> "buffer", buf |-> b]

DecIdle ==
    [pc |-> "idle", fn |-> "none", caller |-> "none", allLayersDir |-> "",
     col |-> Num(0), row |-> Num(0), level |-> Num(0), packetSize |-> Num(0),
     L |-> "", R |-> "", C |-> "", rGroup |-> Num(0), cGroup |-> Num(0),
     bundlePath |-> "", bundlxPath |-> "",
     index |-> Num(0), version |-> 0, offset |-> 0, length |-> 0,
     have |-> {}, handles |-> <<>>, reads |-> <<>>, openFailed |-> FALSE,
     warns |-> 0, pending |-> NoResult, result |-> NoResult]

\* a handle as fs.open returns it
NewHandle(path) == [path |-> path, open |-> TRUE, closes |-> 0, pos |-> 0]
\* filehandle.close()
CloseHandle(h) == [h EXCEPT !.open = FALSE, !.closes = @ + 1]

ReadEntry(fd, position, length, o) ==
    [fd |-> fd, position |-> position, length |-> length,
     bytesRead |-> o.bytesRead, threw |-> o.threw]

(***************************************************************************)
(* readTileV1(allLayersDir, z, x, y, packetSize = 128)                     *)
(***************************************************************************)
\* the slot of the tile in the .bundlx index
V1Index(d) ==
    JsAdd(JsMul(d.packetSize, JsSub(d.col, d.cGroup)), JsSub(d.row, d.rGroup))

\* `length <= 0 || length > 1_000_000`
V1LengthInvalid(length) == length <= 0 \/ length > V1_MAX_LENGTH

\* the call: the code up to `await fs.open(bundlxPath, 'r')`
CallV1(caller, allLayersDir, z, x, y, packetSize) ==
    LET info == getBundleInfo(x, y, z, Num(DEFAULT_PACKET_SIZE))
        stem == allLayersDir \o "/" \o info.L \o "/" \o info.R \o info.C
    IN [DecIdle EXCEPT
          !.pc = "v1_open_index", !.fn = "v1", !.caller = caller,
          !.allLayersDir = allLayersDir,
          !.col = x, !.row = y, !.level = z, !.packetSize = packetSize,
          !.L = info.L, !.R = info.R, !.C = info.C,
          !.rGroup = info.rGroup, !.cGroup = info.cGroup,
          !.bundlePath = stem \o ".bundle", !.bundlxPath = stem \o ".bundlx"]

\* fs.open(bundlxPath): a rejection leaves readTileV1 (no try / catch)
V1OpenIndex(p) ==
    /\ dec[p].pc = "v1_open_index"
    /\ dec' = [dec EXCEPT ![p] =
         IF FileExists(@.bundlxPath)
         THEN [@ EXCEPT !.pc = "v1_read_index",
                        !.handles = Append(@, NewHandle(dec[p].bundlxPath)),
                        !.index = V1Index(dec[p]),
                        !.have = @ \cup {"index"}]
         ELSE [@ EXCEPT !.pc = "done", !.openFailed = TRUE,
                        !.result = ThrowResult]]
    /\ UNCHANGED <<req, mapInfoCache, loads>>

\* fdIndex.read(buffer, 0, 5, 16 + 5 * index); offset = buffer.readUIntLE(0, 5)
V1ReadIndex(p) ==
    /\ dec[p].pc = "v1_read_index"
    /\ LET d == dec[p]
           position == JsAdd(Num(BUNDLX_HEADER), JsMul(Num(BUNDLX_RECORD), d.index))
       IN \E o \in ReadOutcomes(BundleFiles[d.bundlxPath], d.handles[1].pos,
                                position, BUNDLX_RECORD) :
            dec' = [dec EXCEPT ![p] =
              IF o.threw
              THEN [@ EXCEPT !.pc = "done", !.result = ThrowResult,
                             !.reads = Append(@, ReadEntry(1, position, BUNDLX_RECORD, o))]
              ELSE [@ EXCEPT !.pc = "v1_close_index",
                             !.reads = Append(@, ReadEntry(1, position, BUNDLX_RECORD, o)),
                             !.handles[1].pos = o.pos,
                             !.offset = readUIntLE(o.buf, 0, BUNDLX_RECORD),
                             !.have = @ \cup {"offset"}]]
    /\ UNCHANGED <<req, mapInfoCache, loads>>

\* the index is closed but offset 0 is not taken for an absent tile
V1CloseIndex_NoZeroCheck(p) ==
    /\ dec[p].pc = "v1_close_index"
    /\ dec' = [dec EXCEPT ![p].pc = "v1_open_bundle",
                          ![p].handles[1] = CloseHandle(@)]
    /\ UNCHANGED <<req, mapInfoCache, loads>>

\* fdIndex.close(); `if (offset === 0) return null`
V1CloseIndex(p) ==
    /\ dec[p].pc = "v1_close_index"
    /\ dec' = [dec EXCEPT ![p] =
         IF @.offset = 0
         THEN [@ EXCEPT !.pc = "done", !.handles[1] = CloseHandle(@),
                        !.warns = @ + 1, !.result = NullResult]
         ELSE [@ EXCEPT !.pc = "v1_open_bundle", !.handles[1] = CloseHandle(@)]]
    /\ UNCHANGED <<req, mapInfoCache, loads>>

\* fs.open(bundlePath): a rejection leaves readTileV1
V1OpenBundle(p) ==
    /\ dec[p].pc = "v1_open_bundle"
    /\ dec' = [dec EXCEPT ![p] =
         IF FileExists(@.bundlePath)
         THEN [@ EXCEPT !.pc = "v1_read_length",
                        !.handles = Append(@, NewHandle(dec[p].bundlePath))]
         ELSE [@ EXCEPT !.pc = "done", !.openFailed = TRUE,
                        !.result = ThrowResult]]
    /\ UNCHANGED <<req, mapInfoCache, loads>>

\* fdBundle.read(lenBuf, 0, 4, offset); length = lenBuf.readInt32LE()
V1ReadLength(p) ==
    /\ dec[p].pc = "v1_read_length"
    /\ LET d == dec[p]
           position == Num(d.offset)
       IN \E o \in ReadOutcomes(BundleFiles[d.bundlePath], d.handles[2].pos,
                                position, 4) :
            LET length == readInt32LE(o.buf, 0) IN
            dec' = [dec EXCEPT ![p] =
              IF o.threw
              THEN [@ EXCEPT !.pc = "done", !.result = ThrowResult,
                             !.reads = Append(@, ReadEntry(2, position, 4, o))]
              ELSE [@ EXCEPT !.pc = IF V1LengthInvalid(length)
                                    THEN "v1_close_invalid" ELSE "v1_read_data",
                             !.warns = IF V1LengthInvalid(length) THEN @ + 1 ELSE @,
                             !.reads = Append(@, ReadEntry(2, position, 4, o)),
                             !.handles[2].pos = o.pos,
                             !.length = length,
                             !.have = @ \cup {"length"}]]
    /\ UNCHANGED <<req, mapInfoCache, loads>>

\* the invalid length branch: fdBundle.close(); return null
V1CloseInvalid(p) ==
    /\ dec[p].pc = "v1_close_invalid"
    /\ dec' = [dec EXCEPT ![p].pc = "done",
                          ![p].handles[2] = CloseHandle(@),
                          ![p].result = NullResult]
    /\ UNCHANGED <<req, mapInfoCache, loads>>

\* readTileV1's data read with `offset` kept in a variable shared by all
\* calls: the read uses the offset a concurrent call stored last
V1ReadData_SharedOffset(p) ==
    /\ dec[p].pc = "v1_read_data"
    /\ LET d == dec[p]
           others == {q \in Procs \ {p} : dec[q].fn = "v1" /\ dec[q].pc # "done"
                                             /\ "offset" \in dec[q].have}
           offset == IF others = {} THEN d.offset
                     ELSE dec[CHOOSE q \in others : TRUE].offset
           position == Num(offset + 4)
       IN \E o \in ReadOutcomes(BundleFiles[d.bundlePath], d.handles[2].pos,
                                position, d.length) :
            dec' = [dec EXCEPT ![p] =
              IF o.threw
              THEN [@ EXCEPT !.pc = "done", !.result = ThrowResult,
                             !.reads = Append(@, ReadEntry(2, position, d.length, o))]
              ELSE [@ EXCEPT !.pc = "v1_close_bundle",
                             !.reads = Append(@, ReadEntry(2, position, d.length, o)),
                             !.handles[2].pos = o.pos,
                             !.pending = BufferResult(o.buf)]]
    /\ UNCHANGED <<req, mapInfoCache, loads>>

\* data = Buffer.alloc(length); fdBundle.read(data, 0, length, offset + 4)
V1ReadData(p) ==
    /\ dec[p].pc = "v1_read_data"
    /\ LET d == dec[p]
           position == Num(d.offset + 4)
       IN \E o \in ReadOutcomes(BundleFiles[d.bundlePath], d.handles[2].pos,
                                position, d.length) :
            dec' = [dec EXCEPT ![p] =
              IF o.threw
              THEN [@ EXCEPT !.pc = "done", !.result = ThrowResult,
                             !.reads = Append(@, ReadEntry(2, position, d.length, o))]
              ELSE [@ EXCEPT !.pc = "v1_close_bundle",
                             !.reads = Append(@, ReadEntry(2, position, d.length, o)),
                             !.handles[2].pos = o.pos,
                             !.pending = BufferResult(o.buf)]]
    /\ UNCHANGED <<req, mapInfoCache, loads>>

\* fdBundle.close(); return data
V1CloseBundle(p) ==
    /\ dec[p].pc = "v1_close_bundle"
    /\ dec' = [dec EXCEPT ![p].pc = "done",
                          ![p].handles[2] = CloseHandle(@),
                          ![p].result = dec[p].pending]
    /\ UNCHANGED <<req, mapInfoCache, loads>>

(***************************************************************************)
(* readTileV2(allLayersDir, col, row, level, packetSize = 128)             *)
(***************************************************************************)
\* tileIndex = packetSize * (row - rGroup) + (col - cGroup)
V2Index(d) ==
    JsAdd(JsMul(d.packetSize, JsSub(d.row, d.rGroup)), JsSub(d.col, d.cGroup))

\* a version check that also lets version 2 bundles through
V2VersionOk_Lax(version) == version >= 2

\* `version !== 3` is false
V2VersionOk(version) == version = V2_VERSION

\* the V1 bound applied to V2 as well
V2LengthInvalid_Bounded(tileSize) == tileSize <= 0 \/ tileSize > V1_MAX_LENGTH

\* `tileSize <= 0`
V2LengthInvalid(tileSize) == tileSize <= 0

\* the call: the code up to `await fs.open(bundlePath, 'r')`
CallV2(caller, allLayersDir, col, row, level, packetSize) ==
    LET info == getBundleInfo(col, row, level, packetSize)
        stem == allLayersDir \o "/" \o info.L \o "/" \o info.R \o info.C
    IN [DecIdle EXCEPT
          !.pc = "v2_open", !.fn = "v2", !.caller = caller,
          !.allLayersDir = allLayersDir,
          !.col = col, !.row = row, !.level = level, !.packetSize = packetSize,
          !.L = info.L, !.R = info.R, !.C = info.C,
          !.rGroup = info.rGroup, !.cGroup = info.cGroup,
          !.bundlePath = stem \o ".bundle"]

\* try { fd = await fs.open(bundlePath) } catch { warn; return null }
V2Open(p) ==
    /\ dec[p].pc = "v2_open"
    /\ dec' = [dec EXCEPT ![p] =
         IF FileExists(@.bundlePath)
         THEN [@ EXCEPT !.pc = "v2_read_header",
                        !.handles = Append(@, NewHandle(dec[p].bundlePath))]
         ELSE [@ EXCEPT !.pc = "done", !.openFailed = TRUE,
                        !.warns = @ + 1, !.result = NullResult]]
    /\ UNCHANGED <<req, mapInfoCache, loads>>

\* fd.read(headerBuf, 0, HEADER_SIZE, 0); the version check; tileIndex, recordOffset
V2ReadHeader(p) ==
    /\ dec[p].pc = "v2_read_header"
    /\ LET d == dec[p]
           position == Num(0)
       IN \E o \in ReadOutcomes(BundleFiles[d.bundlePath], d.handles[1].pos,
                                position, HEADER_SIZE) :
            LET version == readUInt32LE(o.buf, 0) IN
            dec' = [dec EXCEPT ![p] =
              IF o.threw
              THEN [@ EXCEPT !.pc = "v2_finally", !.pending = ThrowResult,
                             !.reads = Append(@, ReadEntry(1, position, HEADER_SIZE, o))]
              ELSE [@ EXCEPT !.pc = IF V2VersionOk(version)
                                    THEN "v2_read_record" ELSE "v2_finally",
                             !.pending = IF V2VersionOk(version) THEN @ ELSE NullResult,
                             !.warns = IF V2VersionOk(version) THEN @ ELSE @ + 1,
                             !.reads = Append(@, ReadEntry(1, position, HEADER_SIZE, o)),
                             !.handles[1].pos = o.pos,
                             !.version = version,
                             !.index = IF V2VersionOk(version) THEN V2Index(d) ELSE @,
                             !.have = IF V2VersionOk(version)
                                      THEN @ \cup {"version", "index"}
                                      ELSE @ \cup {"version"}]]
    /\ UNCHANGED <<req, mapInfoCache, loads>>

\* fd.read(recordBuf, 0, 4, recordOffset); dataOffset = recordBuf.readInt32LE(0)
V2ReadRecord(p) ==
    /\ dec[p].pc = "v2_read_record"
    /\ LET d == dec[p]
           position == JsAdd(Num(HEADER_SIZE), JsMul(Num(RECORD_SIZE), d.index))
       IN \E o \in ReadOutcomes(BundleFiles[d.bundlePath], d.handles[1].pos,
                                position, 4) :
            LET dataOffset == readInt32LE(o.buf, 0) IN
            dec' = [dec EXCEPT ![p] =
              IF o.threw
              THEN [@ EXCEPT !.pc = "v2_finally", !.pending = ThrowResult,
                             !.reads = Append(@, ReadEntry(1, position, 4, o))]
              ELSE [@ EXCEPT !.pc = IF dataOffset = 0
                                    THEN "v2_finally" ELSE "v2_read_length",
                             !.pending = IF dataOffset = 0 THEN NullResult ELSE @,
                             !.warns = IF dataOffset = 0 THEN @ + 1 ELSE @,
                             !.reads = Append(@, ReadEntry(1, position, 4, o)),
                             !.handles[1].pos = o.pos,
                             !.offset = dataOffset,
                             !.have = @ \cup {"offset"}]]
    /\ UNCHANGED <<req, mapInfoCache, loads>>

\* fd.read(lengthBuf, 0, 4, dataOffset - 4); tileSize = lengthBuf.readInt32LE(0)
V2ReadLength(p) ==
    /\ dec[p].pc = "v2_read_length"
    /\ LET d == dec[p]
           position == Num(d.offset - 4)
       IN \E o \in ReadOutcomes(BundleFiles[d.bundlePath], d.handles[1].pos,
                                position, 4) :
            LET tileSize == readInt32LE(o.buf, 0) IN
            dec' = [dec EXCEPT ![p] =
              IF o.threw
              THEN [@ EXCEPT !.pc = "v2_finally", !.pending = ThrowResult,
                             !.reads = Append(@, ReadEntry(1, position, 4, o))]
              ELSE [@ EXCEPT !.pc = IF V2LengthInvalid(tileSize)
                                    THEN "v2_finally" ELSE "v2_read_data",
                             !.pending = IF V2LengthInvalid(tileSize) THEN NullResult ELSE @,
                             !.warns = IF V2LengthInvalid(tileSize) THEN @ + 1 ELSE @,
                             !.reads = Append(@, ReadEntry(1, position, 4, o)),
                             !.handles[1].pos = o.pos,
                             !.length = tileSize,
                             !.have = @ \cup {"length"}]]
    /\ UNCHANGED <<req, mapInfoCache, loads>>

\* tileBuf = Buffer.alloc(tileSize); fd.read(tileBuf, 0, tileSize, dataOffset)
V2ReadData(p) ==
    /\ dec[p].pc = "v2_read_data"
    /\ LET d == dec[p]
           position == Num(d.offset)
       IN \E o \in ReadOutcomes(BundleFiles[d.bundlePath], d.handles[1].pos,
                                position, d.length) :
            dec' = [dec EXCEPT ![p] =
              IF o.threw
              THEN [@ EXCEPT !.pc = "v2_finally", !.pending = ThrowResult,
                             !.reads = Append(@, ReadEntry(1, position, d.length, o))]
              ELSE [@ EXCEPT !.pc = "v2_finally",
                             !.pending = BufferResult(o.buf),
                             !.reads = Append(@, ReadEntry(1, position, d.length, o)),
                             !.handles[1].pos = o.pos]]
    /\ UNCHANGED <<req, mapInfoCache, loads>>

\* finally { await fd.close() }, then the pending return or throw
V2Finally(p) ==
    /\ dec[p].pc = "v2_finally"
    /\ dec' = [dec EXCEPT ![p].pc = "done",
                          ![p].handles[1] = CloseHandle(@),
                          ![p].result = dec[p].pending]
    /\ UNCHANGED <<req, mapInfoCache, loads>>

\* one step of a decoder activation
DecoderStep(p) ==
    \/ V1OpenIndex(p)
    \/ V1ReadIndex(p)
    \/ V1CloseIndex(p)
    \/ V1OpenBundle(p)
    \/ V1ReadLength(p)
    \/ V1CloseInvalid(p)
    \/ V1ReadData(p)
    \/ V1CloseBundle(p)
    \/ V2Open(p)
    \/ V2ReadHeader(p)
    \/ V2ReadRecord(p)
    \/ V2ReadLength(p)
    \/ V2ReadData(p)
    \/ V2Finally(p)

(***************************************************************************)
(* conf.xml files: the elements getConfXml reads for the tile route        *)
(* (CacheStorageInfo.StorageFormat, CacheStorageInfo.PacketSize,           *)
(* TileImageInfo.CacheTileFormat), or text the XML parser rejects.         *)
(***************************************************************************)
ConfXml(storageFormat, packetSize, cacheTileFormat) ==
    [wellFormed |-> TRUE, StorageFormat |-> storageFormat,
     PacketSize |-> packetSize, CacheTileFormat |-> cacheTileFormat]

ConfXmlFiles ==
    ("v1a" :> ConfXml("esriMapCacheStorageModeCompact", <<"1", "2", "8">>, "png"))
 @@ ("v1b" :> ConfXml("esriMapCacheStorageModeCompact", <<"2">>, "png"))
 @@ ("v2a" :> ConfXml("esriMapCacheStorageModeCompactV2", <<"2">>, "jpg"))
 @@ ("v2z" :> ConfXml("esriMapCacheStorageModeCompactV2", <<"0">>, "jpg"))
 @@ ("loose1" :> ConfXml("esriMapCacheStorageModeExploded", <<"1", "2", "8">>, "jpg"))
 @@ ("odd" :> ConfXml("esriMapCacheStorageModeCompactV3", <<"1", "2", "8">>, "png"))
 @@ ("badxml" :> [wellFormed |-> FALSE, StorageFormat |-> "",
                  PacketSize |-> <<>>, CacheTileFormat |-> ""])

\* the exploded tiles that exist
LooseFiles ==
    {getAllLayersDir("loose1") \o "/L01/R00000001/C00000001.jpeg"}

\* fs.existsSync
ExistsSync(path) == path \in LooseFiles

(***************************************************************************)
(* The requests of the tile route: mapName and the three path parameters.  *)
(***************************************************************************)
TileReq(mapName, level, row, col) ==
    [mapName |-> mapName, level |-> level, row |-> row, col |-> col]

TileRequests ==
    {TileReq("v1a", <<"1">>, <<"1">>, <<"2">>),       \* a stored tile
     TileReq("v1a", <<"1">>, <<"3">>, <<"1">>),       \* length 1,000,001
     TileReq("v1a", <<"3">>, <<"1">>, <<"1">>),       \* no .bundlx
     TileReq("v1b", <<"1">>, <<"3">>, <<"1">>),       \* packet size 2
     TileReq("v2a", <<"1">>, <<"3">>, <<"1">>),       \* a stored tile
     TileReq("v2a", <<"1">>, <<"2">>, <<"1">>),       \* record 0
     TileReq("loose1", <<"1">>, <<"1">>, <<"1">>),
     TileReq("odd", <<"1">>, <<"1">>, <<"1">>),
     TileReq("nomap", <<"1">>, <<"1">>, <<"1">>),
     TileReq("badxml", <<"1">>, <<"1">>, <<"1">>),
     TileReq("v2z", <<"1">>, <<"1">>, <<"1">>),       \* PacketSize 0
     TileReq("v2a", <<"1">>, <<"-", "1">>, <<"1">>),  \* a negative row
     TileReq("v2a", <<"0">>, <<"1">>, <<"1">>),
     TileReq("v2a", <<"1">>, <<"x">>, <<"1">>)}

MapNames == {r.mapName : r \in TileRequests}

NoConf == [imageFormat |-> "", tileType |-> "none", packetSize |-> Num(0)]

ReqIdle ==
    [pc |-> "idle", mapName |-> "", level |-> Num(0), row |-> Num(0),
     col |-> Num(0), conf |-> NoConf, responses |-> <<>>]

\* res.status(status).send(text)
TextResponse(status, text) ==
    [status |-> status, kind |-> "text", text |-> text,
     contentType |-> "", buf |-> BufferAlloc(0)]
\* res.sendFile(path)
FileResponse(path) ==
    [status |-> 200, kind |-> "file", text |-> path,
     contentType |-> "", buf |-> BufferAlloc(0)]
\* res.setHeader('Content-Type', ...); res.send(tileBuffer)
TileResponse(imageFormat, buf) ==
    [status |-> 200, kind |-> "buffer", text |-> "",
     contentType |-> "image/" \o imageFormat, buf |-> buf]

\* `if (!tileBuffer) return res.status(404).send('Tile not found or empty.')`
NotFoundResponse == TextResponse(404, "Tile not found or empty.")

(***************************************************************************)
(* getConfXml(mapName)                                                     *)
(***************************************************************************)
\* the tileType of a StorageFormat
TileTypeOf(storageFormat) ==
    IF storageFormat = "esriMapCacheStorageModeExploded" THEN "loose"
    ELSE IF storageFormat = "esriMapCacheStorageModeCompact" THEN "v1"
    ELSE IF storageFormat = "esriMapCacheStorageModeCompactV2" THEN "v2"
    ELSE "unknown"

\* the ConfXmlInfo built from a parsed conf.xml
ConfXmlInfo(xml) ==
    [imageFormat |-> xml.CacheTileFormat,
     tileType |-> TileTypeOf(xml.StorageFormat),
     packetSize |-> ParseInt(xml.PacketSize)]

(***************************************************************************)
(* The tile route handler                                                  *)
(*   GET /image_tiles/:mapName/MapServer/tile/:level/:row/:col             *)
(***************************************************************************)
\* the handler up to `await getConfXml(mapName)`, and getConfXml up to its
\* return (cache hit), its throw (no conf.xml) or `await parseStringPromise`
TileRequest(p) ==
    /\ req[p].pc = "idle"
    \* requests are numbered in the order they arrive
    /\ \A q \in Procs : q < p => req[q].pc # "idle"
    /\ \E r \in TileRequests :
         LET level == ParseInt(r.level)
             row == ParseInt(r.row)
             col == ParseInt(r.col)
             started == [ReqIdle EXCEPT !.mapName = r.mapName, !.level = level,
                                        !.row = row, !.col = col]
         IN IF r.mapName = "" \/ ~Truthy(level) \/ ~Truthy(row) \/ ~Truthy(col)
            THEN /\ req' = [req EXCEPT ![p] =
                      [started EXCEPT !.pc = "done",
                         !.responses = <<TextResponse(400, "Missing parameters")>>]]
                 /\ UNCHANGED loads
            ELSE IF r.mapName \in DOMAIN mapInfoCache
            THEN /\ req' = [req EXCEPT ![p] =
                      [started EXCEPT !.pc = "have_conf",
                                      !.conf = mapInfoCache[r.mapName]]]
                 /\ UNCHANGED loads
            ELSE IF r.mapName \notin DOMAIN ConfXmlFiles
            THEN /\ req' = [req EXCEPT ![p] = [started EXCEPT !.pc = "rejected"]]
                 /\ UNCHANGED loads
            ELSE /\ req' = [req EXCEPT ![p] = [started EXCEPT !.pc = "parsing"]]
                 /\ loads' = [loads EXCEPT ![r.mapName] = @ + 1]
    /\ UNCHANGED <<dec, mapInfoCache>>

\* parser.parseStringPromise(xml) settles; the rest of getConfXml
ParseSettled(p) ==
    /\ req[p].pc = "parsing"
    /\ LET xml == ConfXmlFiles[req[p].mapName] IN
       IF xml.wellFormed
       THEN /\ mapInfoCache' = (req[p].mapName :> ConfXmlInfo(xml)) @@ mapInfoCache
            /\ req' = [req EXCEPT ![p].pc = "have_conf",
                                  ![p].conf = ConfXmlInfo(xml)]
       ELSE /\ req' = [req EXCEPT ![p].pc = "rejected"]
            /\ UNCHANGED mapInfoCache
    /\ UNCHANGED <<dec, loads>>

\* the loose lookup: the first extension whose file exists
LooseResponse(mapName, level, row, col) ==
    LET L_dir == "L" \o PadStart(NumToString(level, 10), 2, "0")
        R_dir == "R" \o PadStart(NumToString(row, 16), 8, "0")
        C_file == "C" \o PadStart(NumToString(col, 16), 8, "0")
        tilePath(ext) == RASTER_TILE_ROOT_DIR \o "/" \o mapName \o "/_alllayers/"
                           \o L_dir \o "/" \o R_dir \o "/" \o C_file \o ext
    IN IF ExistsSync(tilePath(".jpg")) THEN FileResponse(tilePath(".jpg"))
       ELSE IF ExistsSync(tilePath(".jpeg")) THEN FileResponse(tilePath(".jpeg"))
       ELSE IF ExistsSync(tilePath(".png")) THEN FileResponse(tilePath(".png"))
       ELSE TextResponse(404, "Raster Tile not found")

\* the handler after `await getConfXml`, up to its response or the decoder's
\* first await
Dispatch(p) ==
    /\ req[p].pc = "have_conf"
    /\ LET r == req[p]
           dir == getAllLayersDir(r.mapName)
       IN IF r.conf.tileType = "loose"
          THEN /\ req' = [req EXCEPT ![p].pc = "done",
                            ![p].responses = Append(@,
                                LooseResponse(r.mapName, r.level, r.row, r.col))]
               /\ UNCHANGED dec
          ELSE IF r.conf.tileType = "v1"
          THEN /\ req' = [req EXCEPT ![p].pc = "await_tile"]
               /\ dec' = [dec EXCEPT ![p] =
                     CallV1("handler", dir, r.level, r.col, r.row,
                            Num(DEFAULT_PACKET_SIZE))]
          ELSE IF r.conf.tileType = "v2"
          THEN /\ req' = [req EXCEPT ![p].pc = "await_tile"]
               /\ dec' = [dec EXCEPT ![p] =
                     CallV2("handler", dir, r.col, r.row, r.level, r.conf.packetSize)]
          ELSE /\ req' = [req EXCEPT ![p].pc = "done",
                            ![p].responses = Append(@, NotFoundResponse)]
               /\ UNCHANGED dec
    /\ UNCHANGED <<mapInfoCache, loads>>

\* the awaited decoder settles: the rest of the try / catch
TileSettled(p) ==
    /\ req[p].pc = "await_tile"
    /\ dec[p].pc = "done"
    /\ LET res == dec[p].result IN
       req' = [req EXCEPT ![p].pc = "done", ![p].responses = Append(@,
                 IF res.kind = "throw"
                 THEN TextResponse(500, "Internal server error.")
                 ELSE IF res.kind = "null"
                 THEN NotFoundResponse
                 ELSE TileResponse(req[p].conf.imageFormat, res.buf))]
    /\ UNCHANGED <<dec, mapInfoCache, loads>>

(***************************************************************************)
(* Direct calls of the exported decoders, with the arguments drawn from    *)
(* small sets.  One call is made, by process 1.                            *)
(***************************************************************************)
CallDirs == {getAllLayersDir("v1a"), getAllLayersDir("v1b"), getAllLayersDir("v2a")}
CallLevels == {1, 2, 3}
CallRows == {0, 1, 2, 3, 200}
CallCols == {0, 1, 2, 5}
CallPacketSizes == {1, 2, 128}

DirectV1(p) ==
    /\ p = 1
    /\ dec[p].pc = "idle"
    /\ \E dir \in CallDirs, z \in CallLevels, x \in CallCols, y \in CallRows,
          ps \in CallPacketSizes :
         dec' = [dec EXCEPT ![p] = CallV1("direct", dir, Num(z), Num(x), Num(y), Num(ps))]
    /\ UNCHANGED <<req, mapInfoCache, loads>>

DirectV2(p) ==
    /\ p = 1
    /\ dec[p].pc = "idle"
    /\ \E dir \in CallDirs, level \in CallLevels, col \in CallCols, row \in CallRows,
          ps \in CallPacketSizes :
         dec' = [dec EXCEPT ![p] =
                   CallV2("direct", dir, Num(col), Num(row), Num(level), Num(ps))]
    /\ UNCHANGED <<req, mapInfoCache, loads>>

(***************************************************************************)
(* Specifications.                                                         *)
(***************************************************************************)
Init ==
    /\ req = [p \in Procs |-> ReqIdle]
    /\ dec = [p \in Procs |-> DecIdle]
    /\ mapInfoCache = [m \in {} |-> NoConf]
    /\ loads = [m \in MapNames |-> 0]

\* the server: tile requests, served concurrently
Next ==
    \E p \in Procs :
        \/ TileRequest(p)
        \/ ParseSettled(p)
        \/ Dispatch(p)
        \/ TileSettled(p)
        \/ DecoderStep(p)

Spec == Init /\ [][Next]_vars

\* one run of an exported decoder, called directly
DecoderNext ==
    \E p \in Procs :
        \/ DirectV1(p)
        \/ DirectV2(p)
        \/ DecoderStep(p)

DecoderSpec == Init /\ [][DecoderNext]_vars

(***************************************************************************)
(* Properties.                                                             *)
(***************************************************************************)
Done(p) == dec[p].pc = "done"
IsInt(n) == ~n.nan

\* C1: when opening a bundle-group file fails because the file is missing,
\* the decode ends with null (Absent); no exception reaches the caller.
C1_MissingFileIsAbsent ==
    \A p \in Procs :
        (Done(p) /\ dec[p].openFailed) => dec[p].result.kind = "null"

\* C2: when a decode has ended, on whatever path, every handle it opened has
\* been closed exactly once.
C2_HandlesClosedOnce ==
    \A p \in Procs :
        Done(p) =>
            \A i \in 1..Len(dec[p].handles) :
                ~dec[p].handles[i].open /\ dec[p].handles[i].closes = 1

\* C3: a map whose format tag is neither v1 nor v2 (nor loose) is answered
\* with a response that differs from the response of an absent tile.
C3_UnsupportedDistinct ==
    \A p \in Procs :
        (req[p].pc = "done" /\ req[p].conf.tileType = "unknown")
            => req[p].responses # <<NotFoundResponse>>

\* C4: conf.xml of a map name is read and parsed at most once, whatever the
\* interleaving of the lookups.
C4_OneLoadPerMap ==
    \A m \in MapNames : loads[m] <= 1

\* C5: for a positive packetSize passed to a decoder, the bundle group is
\* rowGroup = floor(row / packetSize) * packetSize, colGroup likewise, and
\* for row, column < packetSize the stem is R0000C0000.
C5_GroupFromPacketSize ==
    \A p \in Procs :
        LET d == dec[p]
            ps == d.packetSize.v
        IN (d.fn # "none" /\ IsInt(d.packetSize) /\ ps > 0
              /\ IsInt(d.row) /\ IsInt(d.col) /\ d.row.v >= 0 /\ d.col.v >= 0)
           => /\ d.rGroup = Num((d.row.v \div ps) * ps)
              /\ d.cGroup = Num((d.col.v \div ps) * ps)
              /\ (d.row.v < ps /\ d.col.v < ps) => (d.R = "R0000" /\ d.C = "C0000")

\* the activation a decoder of kind fn starts with for another tile position
OtherCall(d, row, col) ==
    IF d.fn = "v1"
    THEN CallV1(d.caller, d.allLayersDir, d.level, Num(col), Num(row), d.packetSize)
    ELSE CallV2(d.caller, d.allLayersDir, Num(col), Num(row), d.level, d.packetSize)

IndexOf(d) == IF d.fn = "v1" THEN V1Index(d) ELSE V2Index(d)

\* C6: for a positive packetSize the slot index lies in
\* [0, packetSize * packetSize), and no other tile position that resolves to
\* the same bundle file has the same slot index.
C6_SlotBijection ==
    \A p \in Procs :
        LET d == dec[p]
            ps == d.packetSize.v
        IN (d.fn # "none" /\ "index" \in d.have /\ IsInt(d.packetSize) /\ ps > 0)
           => /\ IsInt(d.index)
              /\ d.index.v >= 0
              /\ d.index.v < ps * ps
              /\ \A row \in CallRows, col \in CallCols :
                    LET o == OtherCall(d, row, col) IN
                    (o.bundlePath = d.bundlePath /\ <<Num(row), Num(col)>> # <<d.row, d.col>>)
                        => IndexOf(o) # d.index

\* C7: the decoder the tile route invokes runs with the packet size of the
\* map's configuration.
C7_DispatchPassesPacketSize ==
    \A p \in Procs :
        dec[p].caller = "handler" => dec[p].packetSize = req[p].conf.packetSize

HeaderRead(e) == e.fd = 1 /\ e.position = Num(0) /\ e.length = HEADER_SIZE

\* C8: in readTileV2, once the header version has been read and is not 3,
\* the header read stays the only read of the run and the run returns null.
C8_BadVersionStops ==
    \A p \in Procs :
        LET d == dec[p] IN
        (d.fn = "v2" /\ "version" \in d.have /\ d.version # 3)
            => /\ Len(d.reads) = 1
               /\ HeaderRead(d.reads[1])
               /\ d.pc \in {"v2_finally", "done"}
               /\ Done(p) => d.result.kind = "null"

\* a V2 run met a header of version 2, returned null and read nothing else
C8_Witness ==
    \E p \in Procs :
        /\ dec[p].fn = "v2" /\ Done(p)
        /\ "version" \in dec[p].have /\ dec[p].version = 2
        /\ dec[p].result.kind = "null"
        /\ Len(dec[p].reads) = 1

\* a read on an open handle failed, or returned fewer bytes than requested
IOFault(e) == e.threw \/ e.bytesRead < e.length

\* C9: a decode that met an IOFault ends in an error; it returns neither
\* null nor a buffer.
C9_IOFaultSurfaces ==
    \A p \in Procs :
        (Done(p) /\ \E i \in 1..Len(dec[p].reads) : IOFault(dec[p].reads[i]))
            => dec[p].result.kind = "throw"

\* C10: readTileV1 returns null, with a warning, whenever the length prefix
\* is <= 0 or > 1,000,000; readTileV2 returns null exactly when the length
\* prefix is <= 0, and what it returns for a positive length is a buffer of
\* exactly that many bytes (a rejected data read is the only other outcome).
C10_AsymmetricLength ==
    \A p \in Procs :
        LET d == dec[p] IN
        (Done(p) /\ "length" \in d.have) =>
            /\ (d.fn = "v1" /\ (d.length <= 0 \/ d.length > V1_MAX_LENGTH))
                  => (d.result.kind = "null" /\ d.warns = 1)
            /\ (d.fn = "v1" /\ d.length > 0 /\ d.length <= V1_MAX_LENGTH)
                  => d.result.kind \in {"buffer", "throw"}
            /\ d.fn = "v2" =>
                  /\ d.result.kind = "null" <=> d.length <= 0
                  /\ d.length > 0 => d.result.kind \in {"buffer", "throw"}
                  /\ d.result.kind = "buffer" => d.result.buf.size = d.length
                  /\ d.length <= 0 => d.warns = 1

\* readTileV2 read a length prefix of 1,000,001 and returned that many bytes
C10_Witness ==
    \E p \in Procs :
        /\ dec[p].fn = "v2" /\ Done(p)
        /\ dec[p].length = 1000001
        /\ dec[p].result.kind = "buffer"
        /\ dec[p].result.buf.size = 1000001
        /\ dec[p].reads[Len(dec[p].reads)].bytesRead = 1000001

(***************************************************************************)
(* The tiles the bundle files above store: decoder, directory, the packet  *)
(* size of the layout, the address, the length and the leading bytes (the  *)
(* rest of the tile is zero).                                              *)
(***************************************************************************)
Stored(fn, mapName, packetSize, level, row, col, length, bytes) ==
    [fn |-> fn, dir |-> getAllLayersDir(mapName), packetSize |-> packetSize,
     level |-> level, row |-> row, col |-> col, length |-> length, bytes |-> bytes]

StoredTiles ==
    {Stored("v1", "v1a", 128, 1, 1, 2, 3, <<137, 80, 78>>),
     Stored("v1", "v1a", 128, 1, 2, 1, 1000000, <<255, 216, 255>>),
     Stored("v1", "v1b", 2, 1, 1, 1, 2, <<11, 12>>),
     Stored("v1", "v1b", 2, 1, 3, 1, 2, <<21, 22>>),
     Stored("v2", "v2a", 2, 1, 3, 1, 3, <<31, 32, 33>>),
     Stored("v2", "v2a", 2, 1, 3, 0, 1000001, <<41, 42>>)}

\* the tile's bytes as a Buffer
TileBuffer(t) == [size |-> t.length, bytes |-> PutBytes(0, t.bytes)]

\* the decoder activation d decodes the address of stored tile t with the
\* packet size of t's bundle
Decodes(d, t) ==
    /\ d.fn = t.fn /\ d.allLayersDir = t.dir
    /\ d.packetSize = Num(t.packetSize)
    /\ d.level = Num(t.level) /\ d.row = Num(t.row) /\ d.col = Num(t.col)

NoReadThrew(d) == \A i \in 1..Len(d.reads) : ~d.reads[i].threw

\* C11: round trip.  Decoding the address of a stored tile with the packet
\* size of its bundle returns exactly the tile's bytes (no read rejecting).
C11_RoundTrip ==
    \A p \in Procs : \A t \in StoredTiles :
        (Done(p) /\ Decodes(dec[p], t) /\ NoReadThrew(dec[p]))
            => dec[p].result = BufferResult(TileBuffer(t))


\* C12: when the record read at the computed record offset is 0, the decode
\* returns null, never an error, and readTileV1 does not open the .bundle.
C12_ZeroRecordAbsent ==
    \A p \in Procs :
        LET d == dec[p] IN
        ("offset" \in d.have /\ d.offset = 0)
            => /\ d.pc \in {"v1_close_index", "v2_finally", "done"}
               /\ Done(p) => d.result.kind = "null"
               /\ d.fn = "v1" =>
                     /\ ~d.openFailed
                     /\ \A i \in 1..Len(d.handles) : d.handles[i].path # d.bundlePath

\* readTileV1 read a whole index record of value 0 from an index whose
\* .bundle exists, and returned null with only the index handle opened
C12_Witness ==
    \E p \in Procs :
        /\ dec[p].fn = "v1" /\ Done(p)
        /\ "offset" \in dec[p].have /\ dec[p].offset = 0
        /\ dec[p].reads[1].bytesRead = BUNDLX_RECORD
        /\ FileExists(dec[p].bundlePath)
        /\ dec[p].result.kind = "null"
        /\ Len(dec[p].handles) = 1


(***************************************************************************)
(* A decoder run on its own: the value readTileV1 / readTileV2 computes    *)
(* from its arguments and the files when no read rejects and every read    *)
(* position is a non-negative integer.                                     *)
(***************************************************************************)
Positional(position) == ~position.nan /\ position.v >= 0

RunAloneV1(d) ==
    IF ~FileExists(d.bundlxPath) THEN ThrowResult
    ELSE
    LET position == JsAdd(Num(BUNDLX_HEADER), JsMul(Num(BUNDLX_RECORD), V1Index(d)))
        offset == readUIntLE(ReadAt(BundleFiles[d.bundlxPath], position.v,
                                    BUNDLX_RECORD).buf, 0, BUNDLX_RECORD)
    IN IF ~Positional(position) THEN NoResult
       ELSE IF offset = 0 THEN NullResult
       ELSE IF ~FileExists(d.bundlePath) THEN ThrowResult
       ELSE
       LET bundle == BundleFiles[d.bundlePath]
           length == readInt32LE(ReadAt(bundle, offset, 4).buf, 0)
       IN IF V1LengthInvalid(length) THEN NullResult
          ELSE BufferResult(ReadAt(bundle, offset + 4, length).buf)

RunAloneV2(d) ==
    IF ~FileExists(d.bundlePath) THEN NullResult
    ELSE
    LET bundle == BundleFiles[d.bundlePath]
        version == readUInt32LE(ReadAt(bundle, 0, HEADER_SIZE).buf, 0)
        position == JsAdd(Num(HEADER_SIZE), JsMul(Num(RECORD_SIZE), V2Index(d)))
        dataOffset == readInt32LE(ReadAt(bundle, position.v, 4).buf, 0)
        tileSize == readInt32LE(ReadAt(bundle, dataOffset - 4, 4).buf, 0)
    IN IF ~V2VersionOk(version) THEN NullResult
       ELSE IF ~Positional(position) THEN NoResult
       ELSE IF dataOffset = 0 THEN NullResult
       ELSE IF dataOffset < 4 THEN NoResult
       ELSE IF V2LengthInvalid(tileSize) THEN NullResult
       ELSE BufferResult(ReadAt(bundle, dataOffset, tileSize).buf)

RunAlone(d) == IF d.fn = "v1" THEN RunAloneV1(d) ELSE RunAloneV2(d)

AllPositional(d) == \A i \in 1..Len(d.reads) : Positional(d.reads[i].position)

\* decodes of the same bundle file for different addresses
SameBundleOtherAddress(d, e) ==
    /\ d.fn # "none" /\ e.fn = d.fn
    /\ d.bundlePath = e.bundlePath
    /\ <<d.level, d.row, d.col>> # <<e.level, e.row, e.col>>

\* C13: a decode that ran while another decode of the same bundle file, for
\* a different address, was started returns what it returns when run alone
\* (no read rejecting).
C13_ConcurrentAsAlone ==
    \A p \in Procs : \A q \in Procs \ {p} :
        (Done(p) /\ SameBundleOtherAddress(dec[p], dec[q])
              /\ NoReadThrew(dec[p]) /\ AllPositional(dec[p]))
            => dec[p].result = RunAlone(dec[p])

\* a decode returned a tile while a decode of another address of the same
\* bundle file was in flight, its index already read
C13_Witness ==
    \E p \in Procs : \E q \in Procs \ {p} :
        /\ Done(p) /\ dec[p].result.kind = "buffer"
        /\ SameBundleOtherAddress(dec[p], dec[q])
        /\ dec[q].pc # "done" /\ Len(dec[q].reads) >= 1
        /\ dec[p].result = RunAlone(dec[p])


\* C14: a decoder called by the tile route never runs for a negative level,
\* row or column, nor for a map whose packet size is zero, negative or NaN.
C14_InvalidRejected ==
    \A p \in Procs :
        dec[p].caller = "handler"
            => /\ \A n \in {req[p].level, req[p].row, req[p].col} :
                      ~n.nan /\ n.v >= 0
               /\ ~req[p].conf.packetSize.nan
               /\ req[p].conf.packetSize.v > 0


\* C15: the handler answers 400 'Missing parameters' only when the map name
\* is missing or level, row or col does not parse to an integer; a request
\* whose level, row and col are integers >= 0 (0 included) is not answered 400.
C15_ZeroIsValid ==
    \A p \in Procs :
        (\E i \in 1..Len(req[p].responses) :
             req[p].responses[i] = TextResponse(400, "Missing parameters"))
            => \/ req[p].mapName = ""
               \/ req[p].level.nan \/ req[p].row.nan \/ req[p].col.nan


\* the handler's run for request p is over: it returned, or its promise
\* rejected
HandlerEnded(p) == req[p].pc \in {"done", "rejected"}

\* C16: the tile route handler never sends two responses, and no run of it
\* ends without having sent one, a failed configuration load and a throwing
\* decoder included.
C16_ExactlyOneResponse ==
    \A p \in Procs :
        /\ Len(req[p].responses) <= 1
        /\ HandlerEnded(p) => Len(req[p].responses) = 1

====
